---- MODULE Spec2Model ----
(***************************************************************************)
(* A model of remove_duplicate_shapes.jsx: the geometry hashes pathToHash  *)
(* and compoundPathToHash, the traversal collectPaths, and main() with its *)
(* two deduplication phases.                                               *)
(*                                                                         *)
(* JavaScript strings are modelled as sequences of one-character strings,  *)
(* so that join, sort and the truthiness test `!hash` are computed as the  *)
(* script computes them.  Coordinates are exact decimals: an integer v     *)
(* stands for v / 10^CoordDigits.                                          *)
(***************************************************************************)
EXTENDS Integers, Sequences, FiniteSets, TLC

\* ------------------------------------------------------------------------
\* Program constants (lines 9-10)
\* ------------------------------------------------------------------------

precision == 1

containerTypes == <<"GroupItem", "CompoundPathItem", "Layer">>

\* ------------------------------------------------------------------------
\* Bounds of the model
\* ------------------------------------------------------------------------

\* Number of decimal digits a stored coordinate carries.
CoordDigits == 2

\* main() is run at most this many times on the same document.
MaxRuns == 2

\* At most this many items of the document are selected.
MaxSel == 2

\* The hashing specification hashes, at the precisions 0..MaxPrecision, a
\* coordinate in -MaxCoord..MaxCoord and one at most MaxDelta above it.
MaxPrecision == 2

MaxCoord == 60

MaxDelta == 9

\* ------------------------------------------------------------------------
\* Strings
\* ------------------------------------------------------------------------

\* UTF-16 code unit of each character the hashes are built from: the order
\* Array.prototype.sort compares by (line 67).
CharCode(c) ==
  CASE c = "," -> 44 [] c = "-" -> 45 [] c = "." -> 46
    [] c = "0" -> 48 [] c = "1" -> 49 [] c = "2" -> 50 [] c = "3" -> 51
    [] c = "4" -> 52 [] c = "5" -> 53 [] c = "6" -> 54 [] c = "7" -> 55
    [] c = "8" -> 56 [] c = "9" -> 57 [] c = ";" -> 59
    [] c = "C" -> 67 [] c = "E" -> 69 [] c = "H" -> 72 [] c = "M" -> 77
    [] c = "N" -> 78 [] c = "O" -> 79 [] c = "P" -> 80 [] c = "R" -> 82
    [] c = "S" -> 83 [] c = "T" -> 84
    [] c = "c" -> 99 [] c = "d" -> 100 [] c = "e" -> 101 [] c = "i" -> 105
    [] c = "l" -> 108 [] c = "n" -> 110 [] c = "o" -> 111 [] c = "p" -> 112
    [] c = "s" -> 115 [] c = "t" -> 116 [] c = "y" -> 121 [] c = "|" -> 124

\* a < b as JavaScript compares strings: by the code units at the first
\* place where they differ, a proper prefix first.
StrLess(a, b) ==
  LET n     == IF Len(a) < Len(b) THEN Len(a) ELSE Len(b)
      diffs == {i \in 1..n : a[i] # b[i]}
  IN  IF diffs = {} THEN Len(a) < Len(b)
      ELSE LET i == CHOOSE i \in diffs : \A j \in diffs : i <= j
           IN  CharCode(a[i]) < CharCode(b[i])

RECURSIVE Join(_, _)
\* Array.prototype.join: the elements with sep between them.
Join(arr, sep) ==
  IF arr = <<>> THEN <<>>
  ELSE IF Len(arr) = 1 THEN arr[1]
  ELSE arr[1] \o sep \o Join(Tail(arr), sep)

RECURSIVE Insert(_, _)
Insert(s, sorted) ==
  IF sorted = <<>> THEN <<s>>
  ELSE IF StrLess(s, Head(sorted)) THEN <<s>> \o sorted
  ELSE <<Head(sorted)>> \o Insert(s, Tail(sorted))

\* Array.prototype.sort left out: the hashes in the order they were pushed.
SortNone(arr) == arr

RECURSIVE Sort(_)
\* Array.prototype.sort with the default comparison (line 67).
Sort(arr) ==
  IF arr = <<>> THEN <<>> ELSE Insert(Head(arr), Sort(Tail(arr)))

\* ------------------------------------------------------------------------
\* Number.prototype.toFixed
\* ------------------------------------------------------------------------

RECURSIVE Pow10(_)
Pow10(n) == IF n = 0 THEN 1 ELSE 10 * Pow10(n - 1)

Digit(d) ==
  CASE d = 0 -> "0" [] d = 1 -> "1" [] d = 2 -> "2" [] d = 3 -> "3"
    [] d = 4 -> "4" [] d = 5 -> "5" [] d = 6 -> "6" [] d = 7 -> "7"
    [] d = 8 -> "8" [] d = 9 -> "9"

RECURSIVE Digits(_, _)
\* The decimal digits of n, zero-padded on the left to at least width.
Digits(n, width) ==
  IF n < 10 /\ width <= 1 THEN <<Digit(n)>>
  ELSE Digits(n \div 10, width - 1) \o <<Digit(n % 10)>>

\* The integer n with n / 10^p closest to |v| / 10^CoordDigits, the larger
\* one of two equally close.
RoundedMagnitude(v, p) ==
  LET a == IF v < 0 THEN -v ELSE v
  IN  IF p >= CoordDigits THEN a * Pow10(p - CoordDigits)
      ELSE LET d == Pow10(CoordDigits - p) IN (2 * a + d) \div (2 * d)

\* v.toFixed(p): a "-" for a negative number (also one that rounds to zero),
\* the integer part, and for p > 0 a "." and p digits.
toFixed(v, p) ==
  LET ds   == Digits(RoundedMagnitude(v, p), p + 1)
      m    == Len(ds) - p
      sign == IF v < 0 THEN <<"-">> ELSE <<>>
  IN  sign \o SubSeq(ds, 1, m)
           \o (IF p > 0 THEN <<".">> \o SubSeq(ds, m + 1, Len(ds)) ELSE <<>>)

\* ------------------------------------------------------------------------
\* The host's objects
\* ------------------------------------------------------------------------

\* app.documents.length; the layers of the active document; its page items
\* by identity; whether the host's CompoundPathItem has a pageItems
\* collection next to its pathItems; the items the user selected, in
\* stacking order; the items remove() has deleted.
VARIABLES documents, layers, item, compoundHasPageItems, selected, removed

\* The state of main(): where it is, its locals, and the alert it showed.
VARIABLES pc, compoundPaths, hashToCompoundPaths, compoundRemovedCount,
          paths, hashToPaths, removedCount, k, alert

\* History: the number of the run, whether doc.selection was non-empty at
\* line 169, the remove() calls of this run and those that threw, and what
\* the previous run was.
VARIABLES run, selectionMode, attempted, failed, previous

\* The inputs and results of one application of the hash functions.
VARIABLE probe

hostVars == <<documents, layers, item, compoundHasPageItems, selected, removed>>

mainVars == <<pc, compoundPaths, hashToCompoundPaths, compoundRemovedCount,
              paths, hashToPaths, removedCount, k, alert>>

historyVars == <<run, selectionMode, attempted, failed, previous>>

vars == <<hostVars, mainVars, historyVars, probe>>

\* A PathPoint: coordinates in units of 10^-CoordDigits.
Point(ax, ay, lx, ly, rx, ry, type) ==
  [anchor |-> <<ax, ay>>, leftDirection |-> <<lx, ly>>,
   rightDirection |-> <<rx, ry>>, pointType |-> type]

\* The geometries the items of the modelled documents have.  "A" and "A2"
\* differ by 0.08 in one coordinate and round to the same digits at
\* precision 1; "Ao" is "A" left open; "B" has two points; "none" has no
\* point at all.
ShapeNames == {"none", "A", "A2", "Ao", "B"}

Shape(name) ==
  CASE name = "none" -> [pathPoints |-> <<>>, closed |-> FALSE]
    [] name = "A"  -> [pathPoints |-> <<Point(46, 100, 46, 100, 46, 100, "CORNER")>>,
                       closed |-> TRUE]
    [] name = "A2" -> [pathPoints |-> <<Point(54, 100, 46, 100, 46, 100, "CORNER")>>,
                       closed |-> TRUE]
    [] name = "Ao" -> [pathPoints |-> <<Point(46, 100, 46, 100, 46, 100, "CORNER")>>,
                       closed |-> FALSE]
    [] name = "B"  -> [pathPoints |-> <<Point(0, 0, -25, 0, 25, 0, "SMOOTH"),
                                        Point(200, -5, 200, -5, 200, -5, "CORNER")>>,
                       closed |-> FALSE]

FlagNames == {"locked", "hidden", "guides", "clipping"}

\* A page item (or a layer) as the host presents it: its typename, its four
\* flags, the geometry of a PathItem, and the items a container holds.
Item(typename, flag, shape, children) ==
  [typename   |-> typename,
   locked     |-> flag = "locked",
   hidden     |-> flag = "hidden",
   guides     |-> flag = "guides",
   clipping   |-> flag = "clipping",
   pathPoints |-> shape.pathPoints,
   closed     |-> shape.closed,
   children   |-> children]

ItemIds == DOMAIN item

\* "pathPoints" in x, "pathItems" in x, "pageItems" in x
HasPathPoints(x) == x.typename = "PathItem"

HasPathItems(x) == x.typename = "CompoundPathItem"

HasPageItems(x) ==
  \/ x.typename \in {"Layer", "GroupItem"}
  \/ x.typename = "CompoundPathItem" /\ compoundHasPageItems

\* The collections read live: an item remove() has deleted is in none.
Live(ids) == SelectSeq(ids, LAMBDA i : i \notin removed)

pathItems(x) == Live(x.children)

pageItems(x) == Live(x.children)

Range(s) == {s[i] : i \in 1..Len(s)}

\* The page item holding i, or 0 for an item a layer holds.
Parent(i) ==
  IF \E c \in ItemIds : i \in Range(item[c].children)
  THEN CHOOSE c \in ItemIds : i \in Range(item[c].children)
  ELSE 0

RECURSIVE Ancestors(_)
Ancestors(i) == IF Parent(i) = 0 THEN {} ELSE {Parent(i)} \cup Ancestors(Parent(i))

\* The layer holding i, directly or in a container.
LayerOf(i) ==
  CHOOSE l \in 1..Len(layers) :
    Range(layers[l].children) \cap ({i} \cup Ancestors(i)) # {}

\* i is in the document: neither it nor a container around it was removed.
InDocument(i) == ({i} \cup Ancestors(i)) \cap removed = {}

\* doc.selection, read live at line 169.
selection == SelectSeq(selected, InDocument)

Flagged(x) == x.locked \/ x.hidden \/ x.guides \/ x.clipping

\* ------------------------------------------------------------------------
\* pathToHash, compoundPathToHash (lines 22-70)
\* ------------------------------------------------------------------------

isContainerType(typeName) ==
  \E i \in 1..Len(containerTypes) : containerTypes[i] = typeName

\* String(pt.pointType), as join converts it.
PointTypeString(type) ==
  IF type = "CORNER"
  THEN <<"P","o","i","n","t","T","y","p","e",".","C","O","R","N","E","R">>
  ELSE <<"P","o","i","n","t","T","y","p","e",".","S","M","O","O","T","H">>

\* Lines 32-41 with the precision 0 taken for a missing one and replaced
\* by all the digits a coordinate has (`precision || digits`).
PointHashDefaulted(pt, p) ==
  LET q == IF p = 0 THEN CoordDigits ELSE p
  IN  Join(<<toFixed(pt.anchor[1], q), toFixed(pt.anchor[2], q),
             toFixed(pt.leftDirection[1], q), toFixed(pt.leftDirection[2], q),
             toFixed(pt.rightDirection[1], q), toFixed(pt.rightDirection[2], q),
             PointTypeString(pt.pointType)>>, <<",">>)

\* Lines 32-41: the seven fields of one point, joined by ",".
PointHash(pt, p) ==
  Join(<<toFixed(pt.anchor[1], p), toFixed(pt.anchor[2], p),
         toFixed(pt.leftDirection[1], p), toFixed(pt.leftDirection[2], p),
         toFixed(pt.rightDirection[1], p), toFixed(pt.rightDirection[2], p),
         PointTypeString(pt.pointType)>>, <<",">>)

\* Line 45.
ClosedString(path) ==
  IF path.closed THEN <<"c","l","o","s","e","d">> ELSE <<"o","p","e","n">>

\* pathToHash with the global precision as a parameter.
pathToHashAt(path, p) ==
  IF ~HasPathPoints(path) \/ Len(path.pathPoints) = 0 THEN <<>>
  ELSE LET pointHashes ==
             [i \in 1..Len(path.pathPoints) |-> PointHash(path.pathPoints[i], p)]
       IN  Join(pointHashes, <<";">>) \o <<"|">> \o ClosedString(path)

pathToHash(path) == pathToHashAt(path, precision)

compoundPathToHash(compoundPath) ==
  IF ~HasPathItems(compoundPath) \/ Len(pathItems(compoundPath)) = 0 THEN <<>>
  ELSE LET subpathHashes ==
             [i \in 1..Len(pathItems(compoundPath)) |->
                pathToHash(item[pathItems(compoundPath)[i]])]
       IN  Join(Sort(subpathHashes), <<"|">>)

\* ------------------------------------------------------------------------
\* collectPaths, collectCompoundPaths (lines 73-118)
\* ------------------------------------------------------------------------

RECURSIVE collectPaths(_, _, _)
RECURSIVE CollectLoop(_, _, _)

\* The loop of lines 80-112 over the page items ids, in order.
CollectLoop(ids, out, pageItemTypename) ==
  IF ids = <<>> THEN out
  ELSE
    LET pageItem == item[Head(ids)]
        rest     == Tail(ids)
    IN  IF pageItem.locked \/ pageItem.hidden \/ pageItem.guides \/ pageItem.clipping
        THEN CollectLoop(rest, out, pageItemTypename)
        ELSE IF pageItem.typename = pageItemTypename
        THEN IF \/ /\ pageItemTypename = "PathItem"
                   /\ Len(pageItem.pathPoints) > 0
                \/ /\ pageItemTypename = "CompoundPathItem"
                   /\ Len(pathItems(pageItem)) > 0
             THEN CollectLoop(rest, Append(out, Head(ids)), pageItemTypename)
             ELSE CollectLoop(rest, out, pageItemTypename)
        ELSE IF isContainerType(pageItem.typename)
        THEN CollectLoop(rest, collectPaths(pageItem, out, pageItemTypename),
                         pageItemTypename)
        ELSE CollectLoop(rest, out, pageItemTypename)

\* The array paths after collectPaths(container, paths, pageItemTypename).
collectPaths(container, out, pageItemTypename) ==
  LET typename == IF pageItemTypename = "undefined" THEN "PathItem"
                  ELSE pageItemTypename
  IN  IF ~HasPageItems(container) THEN out
      ELSE CollectLoop(pageItems(container), out, typename)

collectCompoundPaths(container, out) ==
  collectPaths(container, out, "CompoundPathItem")

\* ------------------------------------------------------------------------
\* main (lines 120-248)
\* ------------------------------------------------------------------------

RECURSIVE CollectLayers(_, _, _)
\* The loops of lines 132-134 and 192-194 over doc.layers, from layer l on.
CollectLayers(l, out, pageItemTypename) ==
  IF l > Len(layers) THEN out
  ELSE CollectLayers(l + 1, collectPaths(layers[l], out, pageItemTypename),
                     pageItemTypename)

RECURSIVE CollectSelectionUnchecked(_, _)
\* The loop of lines 172-190 without the test of lines 176-183.
CollectSelectionUnchecked(sel, out) ==
  IF sel = <<>> THEN out
  ELSE
    LET selectionItem == item[Head(sel)]
    IN  IF selectionItem.typename = "PathItem"
        THEN CollectSelectionUnchecked(Tail(sel), Append(out, Head(sel)))
        ELSE IF isContainerType(selectionItem.typename)
        THEN CollectSelectionUnchecked(Tail(sel),
                                       collectPaths(selectionItem, out, "undefined"))
        ELSE CollectSelectionUnchecked(Tail(sel), out)

RECURSIVE CollectSelection(_, _)
\* The loop of lines 172-190 over doc.selection.
CollectSelection(sel, out) ==
  IF sel = <<>> THEN out
  ELSE
    LET selectionItem == item[Head(sel)]
    IN  IF \/ selectionItem.locked \/ selectionItem.hidden
           \/ selectionItem.guides \/ selectionItem.clipping
        THEN CollectSelection(Tail(sel), out)
        ELSE IF selectionItem.typename = "PathItem"
        THEN CollectSelection(Tail(sel), Append(out, Head(sel)))
        ELSE IF isContainerType(selectionItem.typename)
        THEN CollectSelection(Tail(sel), collectPaths(selectionItem, out, "undefined"))
        ELSE CollectSelection(Tail(sel), out)

\* Lines 143-147 and 212-218 without the `if (!hash) continue;`.
AddToGroupAny(groups, hash, x) ==
  IF \E g \in 1..Len(groups) : groups[g].hash = hash
  THEN LET g == CHOOSE g \in 1..Len(groups) : groups[g].hash = hash
       IN  [groups EXCEPT ![g].items = Append(@, x)]
  ELSE Append(groups, [hash |-> hash, items |-> <<x>>])

\* hashToPaths[hash].push(x) after creating the list when it is missing
\* (lines 143-147, 212-218); the groups are kept in the order for-in visits
\* them, the order in which their keys were added.
AddToGroup(groups, hash, x) ==
  IF hash = <<>> THEN groups
  ELSE IF \E g \in 1..Len(groups) : groups[g].hash = hash
  THEN LET g == CHOOSE g \in 1..Len(groups) : groups[g].hash = hash
       IN  [groups EXCEPT ![g].items = Append(@, x)]
  ELSE Append(groups, [hash |-> hash, items |-> <<x>>])

RECURSIVE GroupCompoundPaths(_, _)
\* Lines 139-148.
GroupCompoundPaths(ids, groups) ==
  IF ids = <<>> THEN groups
  ELSE GroupCompoundPaths(Tail(ids),
         AddToGroup(groups, compoundPathToHash(item[Head(ids)]), Head(ids)))

RECURSIVE GroupPaths(_, _)
\* Lines 208-219.
GroupPaths(ids, groups) ==
  IF ids = <<>> THEN groups
  ELSE GroupPaths(Tail(ids),
         AddToGroup(groups, pathToHash(item[Head(ids)]), Head(ids)))

\* The index the inner loops start at (lines 155, 229): the first member of
\* a group is kept.
FirstRemoved == 1

\* The inner loop started at 0: remove() on every member of a group.
DuplicatesFromFirst(dups) == dups

\* The inner loop stopped one short: remove() on every member but the last.
DuplicatesButLast(dups) == SubSeq(dups, 1, Len(dups) - 1)

\* The members of one group the inner loop calls remove() on.
Duplicates(dups) == SubSeq(dups, FirstRemoved + 1, Len(dups))

RECURSIVE RemovalOrder(_)
\* The items the loops of lines 152-163 and 224-237 call remove() on, in
\* the order of the calls.
RemovalOrder(groups) ==
  IF groups = <<>> THEN <<>>
  ELSE Duplicates(Head(groups).items) \o RemovalOrder(Tail(groups))

\* The increment placed after the try statement.
CountAlways(count, ok) == count + 1

\* The counter after one remove() call (lines 156-161, 230-235): the
\* increment is skipped when remove() throws.
CountAfter(count, ok) == IF ok THEN count + 1 ELSE count

\* Line 199.
NothingEligible(pathsLength, compoundPathsLength) ==
  pathsLength = 0 /\ compoundPathsLength = 0

NoDocumentsMessage == <<"No documents are open.">>

NothingEligibleMessage ==
  <<"No eligible paths found (check for locked/hidden items, or groups/compound paths).">>

\* Lines 239-247.
Summary(removedPaths, removedCompounds) ==
  <<"Removed ", removedPaths, " duplicate path item",
    IF removedPaths = 1 THEN ", " ELSE "s, ",
    removedCompounds, " duplicate compound path",
    IF removedCompounds = 1 THEN "!" ELSE "s!">>

\* Lines 121-124.
NoDocument ==
  /\ pc = "start"
  /\ documents = 0
  /\ alert' = NoDocumentsMessage
  /\ pc' = "done"
  /\ UNCHANGED <<hostVars, historyVars, probe, compoundPaths, hashToCompoundPaths,
                 compoundRemovedCount, paths, hashToPaths, removedCount, k>>

\* Lines 126-150: collect the compound paths of every layer and group them.
CollectCompounds ==
  /\ pc = "start"
  /\ documents > 0
  /\ LET collected == CollectLayers(1, <<>>, "CompoundPathItem")
     IN  /\ compoundPaths' = collected
         /\ hashToCompoundPaths' = GroupCompoundPaths(collected, <<>>)
  /\ compoundRemovedCount' = 0
  /\ k' = 1
  /\ pc' = "compounds"
  /\ UNCHANGED <<hostVars, historyVars, probe, paths, hashToPaths, removedCount, alert>>

\* One pass of the inner loop of lines 155-162: remove() deletes the item
\* or throws.
RemoveCompound ==
  /\ pc = "compounds"
  /\ k <= Len(RemovalOrder(hashToCompoundPaths))
  /\ \E ok \in BOOLEAN :
       LET x == RemovalOrder(hashToCompoundPaths)[k]
       IN  /\ removed' = IF ok THEN removed \cup {x} ELSE removed
           /\ compoundRemovedCount' = CountAfter(compoundRemovedCount, ok)
           /\ attempted' = Append(attempted, x)
           /\ failed' = IF ok THEN failed ELSE Append(failed, x)
  /\ k' = k + 1
  /\ UNCHANGED <<documents, layers, item, compoundHasPageItems, selected, probe,
                 pc, compoundPaths, hashToCompoundPaths, paths, hashToPaths,
                 removedCount, alert, run, selectionMode, previous>>

\* Lines 192-194 taken whether or not there is a selection.
CandidatePathsOfDocument == CollectLayers(1, <<>>, "undefined")

\* Lines 166-195: the paths of the selection when there is one, else the
\* paths of every layer.
CandidatePaths ==
  IF Len(selection) > 0
  THEN CollectSelection(selection, <<>>)
  ELSE CollectLayers(1, <<>>, "undefined")

\* Lines 165-219: collect the paths; stop when nothing at all was
\* collected; else group the paths.
CollectPaths ==
  /\ pc = "compounds"
  /\ k > Len(RemovalOrder(hashToCompoundPaths))
  /\ LET collected == CandidatePaths
     IN  /\ paths' = collected
         /\ selectionMode' = IF Len(selection) > 0 THEN "selection" ELSE "document"
         /\ IF NothingEligible(Len(collected), Len(compoundPaths))
            THEN /\ alert' = NothingEligibleMessage
                 /\ pc' = "done"
                 /\ UNCHANGED <<hashToPaths, removedCount, k>>
            ELSE /\ hashToPaths' = GroupPaths(collected, <<>>)
                 /\ removedCount' = 0
                 /\ k' = 1
                 /\ pc' = "paths"
                 /\ UNCHANGED alert
  /\ UNCHANGED <<hostVars, probe, compoundPaths, hashToCompoundPaths,
                 compoundRemovedCount, run, attempted, failed, previous>>

\* One pass of the inner loop of lines 229-236.
RemovePath ==
  /\ pc = "paths"
  /\ k <= Len(RemovalOrder(hashToPaths))
  /\ \E ok \in BOOLEAN :
       LET x == RemovalOrder(hashToPaths)[k]
       IN  /\ removed' = IF ok THEN removed \cup {x} ELSE removed
           /\ removedCount' = CountAfter(removedCount, ok)
           /\ attempted' = Append(attempted, x)
           /\ failed' = IF ok THEN failed ELSE Append(failed, x)
  /\ k' = k + 1
  /\ UNCHANGED <<documents, layers, item, compoundHasPageItems, selected, probe,
                 pc, compoundPaths, hashToCompoundPaths, compoundRemovedCount,
                 paths, hashToPaths, alert, run, selectionMode, previous>>

\* Lines 239-247.
Report ==
  /\ pc = "paths"
  /\ k > Len(RemovalOrder(hashToPaths))
  /\ alert' = Summary(removedCount, compoundRemovedCount)
  /\ pc' = "done"
  /\ UNCHANGED <<hostVars, historyVars, probe, compoundPaths, hashToCompoundPaths,
                 compoundRemovedCount, paths, hashToPaths, removedCount, k>>

\* The script is run again on the document as the last run left it
\* (line 250).
RunAgain ==
  /\ pc = "done"
  /\ documents > 0
  /\ run < MaxRuns
  /\ run' = run + 1
  /\ previous' = [selectionMode |-> selectionMode, failures |-> Len(failed),
                  attempts |-> Len(attempted)]
  /\ pc' = "start"
  /\ compoundPaths' = <<>>
  /\ hashToCompoundPaths' = <<>>
  /\ compoundRemovedCount' = 0
  /\ paths' = <<>>
  /\ hashToPaths' = <<>>
  /\ removedCount' = 0
  /\ k' = 1
  /\ alert' = <<>>
  /\ selectionMode' = "unset"
  /\ attempted' = <<>>
  /\ failed' = <<>>
  /\ UNCHANGED <<hostVars, probe>>

\* ------------------------------------------------------------------------
\* The documents main() is run on
\* ------------------------------------------------------------------------

(***************************************************************************)
(* Every modelled document has the same tree,                              *)
(*                                                                         *)
(*   layer 12:  path 1,  group 2 [ path 3, compound 4 { path 5, path 6 } ],*)
(*              compound 7 { path 8, path 9 }                              *)
(*   layer 13:  text frame 10,  path 11                                    *)
(*                                                                         *)
(* and differs in the geometry of its seven paths, in the flags of its     *)
(* items and layers, and in what is selected.                              *)
(***************************************************************************)
PathSlots == {1, 3, 5, 6, 8, 9, 11}

FlagSlots == 1..13

Document(shape, flag) ==
  [layers |-> <<Item("Layer", flag[12], Shape("none"), <<1, 2, 7>>),
                Item("Layer", flag[13], Shape("none"), <<10, 11>>)>>,
   item   |-> [i \in 1..11 |->
                CASE i = 2  -> Item("GroupItem", flag[i], Shape("none"), <<3, 4>>)
                  [] i = 4  -> Item("CompoundPathItem", flag[i], Shape("none"), <<5, 6>>)
                  [] i = 7  -> Item("CompoundPathItem", flag[i], Shape("none"), <<8, 9>>)
                  [] i = 10 -> Item("TextFrame", flag[i], Shape("none"), <<>>)
                  [] OTHER  -> Item("PathItem", flag[i], Shape(shape[i]), <<>>)]]

Shapes(s1, s3, s5, s6, s8, s9, s11) ==
  [i \in PathSlots |->
     CASE i = 1 -> s1 [] i = 3 -> s3 [] i = 5 -> s5 [] i = 6 -> s6
       [] i = 8 -> s8 [] i = 9 -> s9 [] i = 11 -> s11]

NoFlags == [i \in FlagSlots |-> "none"]

RECURSIVE SetToSeq(_)
\* The members of a set of items in stacking order.
SetToSeq(S) ==
  IF S = {} THEN <<>>
  ELSE LET m == CHOOSE m \in S : \A x \in S : m <= x
       IN  <<m>> \o SetToSeq(S \ {m})

\* What the user can have selected: at most MaxSel items, none of them
\* inside another selected item (the host reports a selected container,
\* not its content).
Selectable == {1, 2, 3, 4, 7, 11}

Selections ==
  {S \in SUBSET Selectable :
     /\ Cardinality(S) <= MaxSel
     /\ ~(2 \in S /\ S \cap {3, 4} # {})}

\* Documents differing in the geometry of the paths outside compound paths.
GeometryInputs ==
  {[shape |-> Shapes(s1, s3, sub[1], sub[2], sub[3], sub[4], s11),
    flag |-> NoFlags, sel |-> sel] :
     s1 \in {"none", "A", "A2"}, s3 \in {"A", "A2", "B"},
     s11 \in {"A", "Ao", "B"},
     sub \in {<<"A", "B", "B", "A">>, <<"A", "B", "A", "Ao">>},
     sel \in {{}, {1, 3}, {2, 11}}}

\* Documents differing in the geometry of the paths inside compound paths,
\* two of them locked or not.
CompoundInputs ==
  {[shape |-> Shapes(out[1], out[2], s5, s6, s8, s9, out[3]),
    flag |-> [NoFlags EXCEPT ![5] = f, ![8] = f], sel |-> sel] :
     out \in {<<"A", "B", "none">>, <<"none", "none", "none">>},
     s5 \in {"none", "A", "B"}, s6 \in {"none", "A", "B"},
     s8 \in {"none", "A", "B"}, s9 \in {"none", "A", "B"},
     f \in {"none", "locked"},
     sel \in {{}, {7}, {4, 11}}}

\* The flag tried on slot i: each of the four on some path and on some
\* container.
FlagOf(i) ==
  CASE i % 4 = 0 -> "locked" [] i % 4 = 1 -> "hidden"
    [] i % 4 = 2 -> "guides" [] OTHER -> "clipping"

\* Documents with one flag set, on an item or on a layer.
FlagInputs ==
  {[shape |-> sh, flag |-> fl, sel |-> sel] :
     sh \in {Shapes("A", "A", "A", "B", "B", "A", "A2")},
     fl \in {NoFlags} \cup {[NoFlags EXCEPT ![i] = FlagOf(i)] : i \in FlagSlots},
     sel \in Selections}

\* Documents whose compound paths are flagged and hold paths without
\* points, and whose other paths are flagged or without points or neither.
BareInputs ==
  {[shape |-> Shapes(s1, "none", "none", "none", "none", "none", s11),
    flag |-> [NoFlags EXCEPT ![4] = f4, ![7] = f7, ![1] = f1, ![11] = f11],
    sel |-> sel] :
     s1 \in {"none", "A"}, s11 \in {"none", "A"},
     f1 \in {"none", "hidden"}, f11 \in {"none", "guides"},
     f4 \in {"clipping"}, f7 \in {"hidden"},
     sel \in Selections}

\* The host lets nothing be selected inside a flagged container or layer.
SelectionReachable(in) ==
  \A x \in in.sel :
    /\ x \in {3, 4} => in.flag[2] = "none"
    /\ x \in {1, 2, 3, 4, 7} => in.flag[12] = "none"
    /\ x = 11 => in.flag[13] = "none"

Inputs ==
  {in \in GeometryInputs \cup CompoundInputs \cup FlagInputs \cup BareInputs :
     SelectionReachable(in)}

InitMain ==
  /\ pc = "start"
  /\ compoundPaths = <<>>
  /\ hashToCompoundPaths = <<>>
  /\ compoundRemovedCount = 0
  /\ paths = <<>>
  /\ hashToPaths = <<>>
  /\ removedCount = 0
  /\ k = 1
  /\ alert = <<>>
  /\ run = 1
  /\ selectionMode = "unset"
  /\ attempted = <<>>
  /\ failed = <<>>
  /\ previous = [selectionMode |-> "unset", failures |-> 0, attempts |-> 0]
  /\ removed = {}

\* main() is about to run: on an open document, or with no document open.
Init ==
  /\ InitMain
  /\ probe = <<>>
  /\ \/ /\ documents = 1
        /\ \E in \in Inputs :
             /\ layers = Document(in.shape, in.flag).layers
             /\ item = Document(in.shape, in.flag).item
             /\ selected = SetToSeq(in.sel)
        /\ compoundHasPageItems \in BOOLEAN
     \/ /\ documents = 0
        /\ layers = <<>>
        /\ item = <<>>
        /\ selected = <<>>
        /\ compoundHasPageItems = FALSE

Next ==
  \/ NoDocument
  \/ CollectCompounds
  \/ RemoveCompound
  \/ CollectPaths
  \/ RemovePath
  \/ Report
  \/ RunAgain

Spec == Init /\ [][Next]_vars

\* ------------------------------------------------------------------------
\* The hash functions applied to bounded inputs
\* ------------------------------------------------------------------------

\* A path of one point whose first coordinate is x.
TestPath(x, type, isClosed) ==
  Item("PathItem", "none",
       [pathPoints |-> <<Point(x, 100, 0, -5, 0, 0, type)>>, closed |-> isClosed],
       <<>>)

\* Two paths to hash at the precisions p and p + 1.
PathProbes ==
  {[op |-> "pathToHash", a |-> TestPath(x, "CORNER", TRUE),
    b |-> TestPath(x + d, type, isClosed), p |-> p, keys |-> <<>>] :
     x \in (-MaxCoord)..MaxCoord, d \in 0..MaxDelta, p \in 0..MaxPrecision,
     type \in {"CORNER", "SMOOTH"}, isClosed \in BOOLEAN}

\* The orders in which the three paths of compound path 4 can be stored.
Orders ==
  {<<a, b, c>> : a \in 1..3, b \in 1..3, c \in 1..3} \ 
  {t \in {<<a, b, c>> : a \in 1..3, b \in 1..3, c \in 1..3} :
     t[1] = t[2] \/ t[1] = t[3] \/ t[2] = t[3]}

\* A compound path of three paths, and a second order of them.
CompoundProbes ==
  {[op |-> "compoundPathToHash", shapes |-> <<s1, s2, s3>>, order |-> perm,
    keys |-> <<>>] :
     s1 \in ShapeNames, s2 \in ShapeNames, s3 \in ShapeNames, perm \in Orders}

HashInit ==
  /\ InitMain
  /\ documents = 1
  /\ selected = <<>>
  /\ compoundHasPageItems = FALSE
  /\ layers = <<Item("Layer", "none", Shape("none"), <<4>>)>>
  /\ probe \in PathProbes \cup CompoundProbes
  /\ item = [i \in 1..4 |->
              IF i = 4 THEN Item("CompoundPathItem", "none", Shape("none"), <<1, 2, 3>>)
              ELSE IF probe.op = "compoundPathToHash"
              THEN Item("PathItem", "none", Shape(probe.shapes[i]), <<>>)
              ELSE Item("PathItem", "none", Shape("none"), <<>>)]

\* pathToHash on both paths, with precision set to p and to p + 1.
HashPaths ==
  /\ probe.op = "pathToHash"
  /\ probe.keys = <<>>
  /\ probe' = [probe EXCEPT !.keys =
                 <<pathToHashAt(probe.a, probe.p), pathToHashAt(probe.b, probe.p),
                   pathToHashAt(probe.a, probe.p + 1),
                   pathToHashAt(probe.b, probe.p + 1)>>]
  /\ UNCHANGED <<hostVars, mainVars, historyVars>>

\* compoundPathToHash on compound path 4 and on a copy with its paths in
\* the second order.
HashCompound ==
  /\ probe.op = "compoundPathToHash"
  /\ probe.keys = <<>>
  /\ probe' = [probe EXCEPT !.keys =
                 <<compoundPathToHash(item[4]),
                   compoundPathToHash([item[4] EXCEPT !.children = probe.order])>>]
  /\ UNCHANGED <<hostVars, mainVars, historyVars>>

HashNext == HashPaths \/ HashCompound

HashSpec == HashInit /\ [][HashNext]_vars

\* ------------------------------------------------------------------------
\* Vocabulary of the properties
\* ------------------------------------------------------------------------

Simple(x) == item[x].typename = "PathItem"

Compound(x) == item[x].typename = "CompoundPathItem"

\* The items a remove() call of this run deleted.
RemovedThisRun == {x \in Range(attempted) : x \notin Range(failed)}

\* x was in the document when this run began.
InDocumentAtStart(x) ==
  ({x} \cup Ancestors(x)) \cap (removed \ RemovedThisRun) = {}

\* doc.selection when this run began.
SelectionAtStart == SelectSeq(selected, InDocumentAtStart)

\* x is a selected item or lies inside a selected container.
InSelection(x) == ({x} \cup Ancestors(x)) \cap Range(SelectionAtStart) # {}

\* The key under which main() filed the member x of groups, or the empty
\* key for an item it filed nowhere.
RecordedKey(groups, x) ==
  IF \E g \in 1..Len(groups) : x \in Range(groups[g].items)
  THEN groups[CHOOSE g \in 1..Len(groups) : x \in Range(groups[g].items)].hash
  ELSE <<>>

RECURSIVE RecordedKeysOf(_, _)
RecordedKeysOf(groups, ids) ==
  IF ids = <<>> THEN <<>>
  ELSE <<RecordedKey(groups, Head(ids))>> \o RecordedKeysOf(groups, Tail(ids))

\* The key of each collected compound path and of each collected path, as
\* main() filed it.
CompoundKeys == RecordedKeysOf(hashToCompoundPaths, compoundPaths)

PathKeys == RecordedKeysOf(hashToPaths, paths)

\* The key filed is the key the hash function gives, when the candidates
\* have just been grouped (phase 1 removes no path from a compound path
\* that stays, and the points of a path never change).
KeysAreHashes ==
  /\ pc = "compounds" /\ k = 1 =>
       \A i \in 1..Len(compoundPaths) :
         CompoundKeys[i] = compoundPathToHash(item[compoundPaths[i]])
  /\ pc = "paths" /\ k = 1 =>
       \A i \in 1..Len(paths) : PathKeys[i] = pathToHash(item[paths[i]])

\* Candidate i is the first one collected with its key.
FirstWithKey(keys, i) == \A j \in 1..(i - 1) : keys[j] # keys[i]

\* Of the candidates with a non-empty key, the first of each key is in the
\* document and every later one is not.
OnePerKey(candidates, keys) ==
  \A i \in 1..Len(candidates) :
    keys[i] # <<>> =>
      IF FirstWithKey(keys, i) THEN InDocument(candidates[i])
      ELSE ~InDocument(candidates[i])

\* remove() was called on every candidate that is not the first of its key.
LaterOnesAttempted(candidates, keys) ==
  \A i \in 1..Len(candidates) :
    keys[i] # <<>> /\ ~FirstWithKey(keys, i) => candidates[i] \in Range(attempted)

\* x is a candidate, and nowhere among the candidates the first of its key.
NotRetained(candidates, keys, x) ==
  /\ x \in Range(candidates)
  /\ \A i \in 1..Len(candidates) :
       candidates[i] = x => keys[i] # <<>> /\ ~FirstWithKey(keys, i)

Members(groups) == UNION {Range(groups[g].items) : g \in 1..Len(groups)}

Phase1Over == pc = "compounds" /\ k > Len(RemovalOrder(hashToCompoundPaths))

RunOver == pc = "done" /\ documents > 0

\* ------------------------------------------------------------------------
\* C1  First-seen retention
\* ------------------------------------------------------------------------

\* C1: when a run ends in which no remove() call failed, then for every
\* non-empty key among the compound paths collected in phase 1, and among
\* the paths collected in phase 2, the candidate collected first with that
\* key is in the document and every later candidate with that key is not.
\* The keys are those main() filed the candidates under, which are the
\* keys compoundPathToHash and pathToHash give; the compound paths are
\* checked also when phase 1 ends.
FirstSeenRetention ==
  /\ KeysAreHashes
  /\ Phase1Over /\ failed = <<>> => OnePerKey(compoundPaths, CompoundKeys)
  /\ RunOver /\ failed = <<>> =>
       /\ OnePerKey(compoundPaths, CompoundKeys)
       /\ OnePerKey(paths, PathKeys)

\* A run without failures ended that found three paths with one key and
\* two compound paths with one key.
FirstSeenRetentionWitness ==
  /\ RunOver
  /\ failed = <<>>
  /\ \E g \in 1..Len(hashToPaths) : Len(hashToPaths[g].items) >= 3
  /\ \E g \in 1..Len(hashToCompoundPaths) : Len(hashToCompoundPaths[g].items) >= 2

\* ------------------------------------------------------------------------
\* C2  Failure tolerance
\* ------------------------------------------------------------------------

Successes(P(_)) == Len(SelectSeq(attempted, P)) - Len(SelectSeq(failed, P))

\* C2: whichever remove() calls fail, when the run ends remove() has been
\* called on every candidate that is not the first of its key, and
\* removedCount and compoundRemovedCount, the counts the summary reports,
\* are the numbers of remove() calls on paths and on compound paths that
\* succeeded.
FailureTolerance ==
  /\ KeysAreHashes
  /\ RunOver =>
       /\ LaterOnesAttempted(compoundPaths, CompoundKeys)
       /\ LaterOnesAttempted(paths, PathKeys)
       /\ removedCount = Successes(Simple)
       /\ compoundRemovedCount = Successes(Compound)
       /\ alert \in {NothingEligibleMessage, Summary(Successes(Simple), Successes(Compound))}
       /\ \A x \in Range(attempted) : x \in removed <=> x \notin Range(failed)

\* A run ended in which, of three paths with one key, remove() failed on
\* the second and deleted the third.
FailureToleranceWitness ==
  /\ RunOver
  /\ \E g \in 1..Len(hashToPaths) :
       /\ Len(hashToPaths[g].items) >= 3
       /\ hashToPaths[g].items[2] \in Range(failed)
       /\ hashToPaths[g].items[3] \in removed
  /\ removedCount >= 1

\* ------------------------------------------------------------------------
\* C3  Eligibility
\* ------------------------------------------------------------------------

\* x, a container around x or the layer of x has a flag set.
FlaggedOrInsideFlagged(x) ==
  \/ Flagged(item[x])
  \/ \E a \in Ancestors(x) : Flagged(item[a])
  \/ Flagged(layers[LayerOf(x)])

\* C3: no shape that has a flag set, and no shape inside a container that
\* has a flag set, is ever collected as a candidate, has remove() called on
\* it or leaves the document, in either phase and in either mode.
Eligibility ==
  /\ \A x \in Range(compoundPaths) \cup Range(paths) \cup Range(attempted) :
       ~FlaggedOrInsideFlagged(x)
  /\ \A x \in ItemIds :
       FlaggedOrInsideFlagged(x) /\ InDocumentAtStart(x) => InDocument(x)

\* ------------------------------------------------------------------------
\* C4  Selection scoping
\* ------------------------------------------------------------------------

\* C4 as claimed: when a run that began with a non-empty selection ends,
\* every path that is neither selected nor inside a selected container is
\* still in the document.
SelectionScoping ==
  RunOver /\ Len(SelectionAtStart) > 0 =>
    \A x \in ItemIds :
      Simple(x) /\ InDocumentAtStart(x) /\ ~InSelection(x) => InDocument(x)

\* C4 as amended: when a run ends that found a selected item still in the
\* document after phase 1, remove() has been called on no path that is
\* neither selected nor inside a selected container, and every such path
\* is still in the document unless it lies inside a compound path that
\* phase 1 removed.
SelectionScopingAmended ==
  RunOver /\ selectionMode = "selection" =>
    \A x \in ItemIds :
      Simple(x) /\ InDocumentAtStart(x) /\ ~InSelection(x) =>
        /\ x \notin Range(attempted)
        /\ \/ InDocument(x)
           \/ \E a \in Ancestors(x) : Compound(a) /\ a \in RemovedThisRun

\* A selection-mode run ended that deleted a selected path and left a path
\* with the same key outside the selection in the document.
SelectionScopingWitness ==
  /\ RunOver
  /\ selectionMode = "selection"
  /\ \E x \in RemovedThisRun, y \in ItemIds :
       /\ Simple(x) /\ Simple(y)
       /\ ~InSelection(y)
       /\ InDocument(y)
       /\ pathToHash(item[y]) = pathToHash(item[x])

\* ------------------------------------------------------------------------
\* C5  Nothing eligible
\* ------------------------------------------------------------------------

\* A compound path with no flag set and at least one path in it, as the
\* run found it.
QualifyingCompound(x) ==
  /\ Compound(x)
  /\ InDocumentAtStart(x)
  /\ ~Flagged(item[x])
  /\ \E c \in Range(item[x].children) : c \notin removed \ RemovedThisRun

\* A path with no flag set and at least one point, in the selection when
\* there is one.
QualifyingSimple(x) ==
  /\ Simple(x)
  /\ InDocumentAtStart(x)
  /\ ~Flagged(item[x])
  /\ Len(item[x].pathPoints) > 0
  /\ Len(SelectionAtStart) > 0 => InSelection(x)

\* A selected path with no flag set, whether it has points or not.
SelectedUnflaggedPath(x) ==
  /\ Simple(x)
  /\ x \in Range(SelectionAtStart)
  /\ ~Flagged(item[x])

\* C5 as claimed: a run that finds no qualifying compound path and no
\* qualifying path ends with the 'nothing eligible' message, having called
\* remove() on nothing.
NothingEligibleShown ==
  (/\ RunOver
   /\ \A x \in ItemIds : ~QualifyingCompound(x) /\ ~QualifyingSimple(x))
  => alert = NothingEligibleMessage /\ attempted = <<>>

\* C5 as amended: the same, when moreover no path without a flag is
\* itself selected (such a path is a candidate even without points).
NothingEligibleShownAmended ==
  (/\ RunOver
   /\ \A x \in ItemIds :
        ~QualifyingCompound(x) /\ ~QualifyingSimple(x) /\ ~SelectedUnflaggedPath(x))
  => alert = NothingEligibleMessage /\ attempted = <<>>

\* A run with a selection ended with the 'nothing eligible' message on a
\* document that holds a path with points and a flag.
NothingEligibleWitness ==
  /\ RunOver
  /\ alert = NothingEligibleMessage
  /\ Len(SelectionAtStart) > 0
  /\ \A x \in ItemIds :
       ~QualifyingCompound(x) /\ ~QualifyingSimple(x) /\ ~SelectedUnflaggedPath(x)
  /\ \E x \in Range(SelectionAtStart) :
       Simple(x) /\ Flagged(item[x]) /\ Len(item[x].pathPoints) > 0

\* ------------------------------------------------------------------------
\* C6  Empty-geometry exclusion
\* ------------------------------------------------------------------------

\* A path without points has the empty key, is a member of no group and
\* never has remove() called on it; so has a compound path without paths
\* in it, while the compound paths are being removed.
EmptyNeverGrouped ==
  /\ \A x \in ItemIds :
       Simple(x) /\ Len(item[x].pathPoints) = 0 =>
         /\ pathToHash(item[x]) = <<>>
         /\ x \notin Members(hashToPaths)
         /\ x \notin Range(attempted)
  /\ pc = "compounds" =>
       \A x \in ItemIds :
         Compound(x) /\ Len(pathItems(item[x])) = 0 =>
           /\ compoundPathToHash(item[x]) = <<>>
           /\ x \notin Members(hashToCompoundPaths)
           /\ x \notin Range(attempted)

\* x has no geometry: a path without points, or a compound path that held
\* no path when the run began.
EmptyGeometry(x) ==
  \/ Simple(x) /\ Len(item[x].pathPoints) = 0
  \/ Compound(x) /\ Range(item[x].children) \subseteq removed \ RemovedThisRun

\* C6 as claimed: a shape without geometry has the empty key, is never in
\* a group, and is never deleted: if it was in the document when the run
\* began, it is in the document.
EmptyGeometryExclusion ==
  /\ EmptyNeverGrouped
  /\ \A x \in ItemIds :
       EmptyGeometry(x) /\ InDocumentAtStart(x) => InDocument(x)

\* C6 as amended: a shape without geometry has the empty key, is never in
\* a group and never has remove() called on it; it leaves the document
\* only inside a compound path that the run removed.
EmptyGeometryExclusionAmended ==
  /\ EmptyNeverGrouped
  /\ \A x \in ItemIds :
       EmptyGeometry(x) /\ InDocumentAtStart(x) =>
         \/ InDocument(x)
         \/ \E a \in Ancestors(x) : Compound(a) /\ a \in RemovedThisRun

\* A run ended that had collected two paths without points and left both
\* in the document.
EmptyGeometryWitness ==
  /\ RunOver
  /\ Cardinality({i \in 1..Len(paths) :
                    /\ Len(item[paths[i]].pathPoints) = 0
                    /\ InDocument(paths[i])}) >= 2
  /\ alert # NothingEligibleMessage

\* ------------------------------------------------------------------------
\* C9  No double deletion
\* ------------------------------------------------------------------------

\* C9: in one run remove() is called at most once on an item, and only on
\* a candidate that is not the first collected with its key.
NoDoubleDeletion ==
  /\ KeysAreHashes
  /\ \A i, j \in 1..Len(attempted) : i # j => attempted[i] # attempted[j]
  /\ attempted # <<>> =>
       LET compoundKeys == CompoundKeys
           pathKeys     == PathKeys
       IN  \A x \in Range(attempted) :
             IF Compound(x) THEN NotRetained(compoundPaths, compoundKeys, x)
             ELSE NotRetained(paths, pathKeys, x)

\* A selection-mode run ended with two remove() calls, one of which failed.
NoDoubleDeletionWitness ==
  /\ RunOver
  /\ selectionMode = "selection"
  /\ Len(attempted) >= 2
  /\ failed # <<>>

\* ------------------------------------------------------------------------
\* C10  Idempotence
\* ------------------------------------------------------------------------

\* C10: in a run that follows a whole-document run in which no remove()
\* call failed, remove() is called on nothing and both counts are zero.
Idempotence ==
  run > 1 /\ previous.selectionMode = "document" /\ previous.failures = 0 =>
    /\ attempted = <<>>
    /\ removedCount = 0
    /\ compoundRemovedCount = 0

\* ------------------------------------------------------------------------
\* C7  Precision monotonicity
\* ------------------------------------------------------------------------

HashedPaths == probe.op = "pathToHash" /\ probe.keys # <<>>

\* The coordinates of a path, point by point.
Coordinates(path) ==
  UNION {{pt.anchor[1], pt.anchor[2], pt.leftDirection[1], pt.leftDirection[2],
          pt.rightDirection[1], pt.rightDirection[2]} :
           pt \in Range(path.pathPoints)}

\* No coordinate of the path, written with p digits, ends in the digit 5.
NoFinalFive(path, p) ==
  \A v \in Coordinates(path) :
    LET str == toFixed(v, p) IN str[Len(str)] # "5"

\* C7 as claimed: two paths that pathToHash gives equal keys at precision
\* p + 1 get equal keys at precision p.
PrecisionMonotonicity ==
  HashedPaths /\ probe.keys[3] = probe.keys[4] => probe.keys[1] = probe.keys[2]

\* C7 as amended: two paths that pathToHash gives equal keys at precision
\* p + 1, in which no coordinate written with p + 1 digits ends in the
\* digit 5, get equal keys at precision p.
PrecisionMonotonicityAmended ==
  (/\ HashedPaths
   /\ probe.keys[3] = probe.keys[4]
   /\ NoFinalFive(probe.a, probe.p + 1))
  => probe.keys[1] = probe.keys[2]

\* Two paths with different coordinates were hashed whose keys are equal at
\* precision 1, with no coordinate ending in 5, and at precision 0.
PrecisionMonotonicityWitness ==
  /\ HashedPaths
  /\ probe.p = 0
  /\ probe.a.pathPoints # probe.b.pathPoints
  /\ probe.keys[3] = probe.keys[4]
  /\ NoFinalFive(probe.a, 1)
  /\ probe.keys[1] = probe.keys[2]

\* ------------------------------------------------------------------------
\* C8  Sub-path order insensitivity
\* ------------------------------------------------------------------------

HashedCompound == probe.op = "compoundPathToHash" /\ probe.keys # <<>>

\* C8: compoundPathToHash gives a compound path and a copy of it with the
\* paths in another order the same key.
SubPathOrderInsensitivity ==
  HashedCompound => probe.keys[1] = probe.keys[2]

\* A compound path of three paths with three different keys was hashed,
\* and so was a copy with the paths in reverse order.
SubPathOrderWitness ==
  /\ HashedCompound
  /\ probe.order = <<3, 2, 1>>
  /\ probe.keys[1] # <<>>
  /\ \A i, j \in 1..3 :
       i # j => pathToHash(item[i]) # pathToHash(item[j])

====
